---------------------------- MODULE Spec2Model ----------------------------
(***************************************************************************)
(* A model of the dataset generator: the three-stage generate pipeline     *)
(* with its file-based resume (cmd_generate, run_extraction,               *)
(* generate_test_cases, generate_dataset) and the artifact validator       *)
(* (validate).  Identifiers such as uc_3 are modelled as <<"uc", 3>>.      *)
(* Free text (names, statements, message contents) is left out; every      *)
(* field a branch of the code reads is kept.                               *)
(***************************************************************************)
EXTENDS Integers, Sequences, FiniteSets, TLC

(***************************************************************************)
(* Bounds of the model.                                                    *)
(***************************************************************************)
\* config.n_use_cases, n_test_cases_per_uc, n_examples_per_tc (CLI inputs)
N_USE_CASES == 2
N_TEST_CASES_PER_UC == 2
N_EXAMPLES_PER_TC == 2
\* most policies a gateway answer holds (extract_policies takes them all)
MaxPolicies == 1
\* generate runs on one output directory
MaxRuns == 3

(***************************************************************************)
(* Generic helpers.                                                        *)
(***************************************************************************)
Max(a, b) == IF a >= b THEN a ELSE b
Min(a, b) == IF a <= b THEN a ELSE b

\* Python's xs[:n] for n >= 0
Take(xs, n) == SubSeq(xs, 1, Min(n, Len(xs)))

Range(xs) == {xs[i] : i \in DOMAIN xs}

IsPrefix(xs, ys) == Len(xs) <= Len(ys) /\ SubSeq(ys, 1, Len(xs)) = xs

\* An optional value (Python's None or a missing key): <<>> or <<v>>
None == <<>>
Some(v) == <<v>>

Id(prefix, n) == <<prefix, n>>

Cases == {"support_bot", "operator_quality"}

(***************************************************************************)
(* Stage 1: extraction (extractor.py).                                     *)
(* A document is the sequence of its lines, each "text" or "blank".        *)
(* A gateway evidence entry is [line_start, line_end : optional Int,       *)
(* quote : "" | "q", found : BOOLEAN]; found says whether the stripped     *)
(* quote occurs in the text of the clamped line range.                     *)
(***************************************************************************)
\* "\n".join(raw_lines[line_start - 1 : line_end]).strip() is non-empty
ActualNonEmpty(raw_lines, line_start, line_end) ==
    \E i \in line_start .. Min(line_end, Len(raw_lines)) : raw_lines[i] = "text"

\* One pass of the loop of _validate_evidence
FixEvidence(ev, raw_lines) ==
    LET ls0 == IF ev.line_start = None THEN 1 ELSE ev.line_start[1]
        le0 == IF ev.line_end = None THEN ls0 ELSE ev.line_end[1]
        line_start == Max(1, Min(ls0, Len(raw_lines)))
        line_end == Max(line_start, Min(le0, Len(raw_lines)))
        actual == ActualNonEmpty(raw_lines, line_start, line_end)
        kept == ev.quote # "" /\ actual /\ ev.found
    IN  [line_start |-> line_start,
         line_end |-> line_end,
         quote |-> IF kept THEN ev.quote
                   ELSE IF actual THEN "lines" ELSE ev.quote]

_validate_evidence(evidence_list, raw_lines) ==
    [i \in DOMAIN evidence_list |-> FixEvidence(evidence_list[i], raw_lines)]

\* The literal default of uc_data.get("evidence", [...]): whether "N/A" occurs
\* in line 1 is a fact of the document, modelled by naFound.
DefaultEvidence(naFound) ==
    << [line_start |-> Some(1), line_end |-> Some(1), quote |-> "N/A", found |-> naFound] >>

Placeholder == [line_start |-> 1, line_end |-> 1, quote |-> "N/A"]

\* evidence of one extracted record: raw.evidence is None (key absent) or
\* Some(list)
RecordEvidence(raw, raw_lines, naFound) ==
    LET given == IF raw.evidence = None THEN DefaultEvidence(naFound)
                 ELSE raw.evidence[1]
        evidence == _validate_evidence(given, raw_lines)
    IN  IF evidence = <<>> THEN <<Placeholder>> ELSE evidence

extract_use_cases(use_cases_raw, raw_lines, naFound, case_type) ==
    LET kept == Take(use_cases_raw, N_USE_CASES)
    IN  [i \in DOMAIN kept |->
            [id |-> Id("uc", i),
             case |-> case_type,
             evidence |-> RecordEvidence(kept[i], raw_lines, naFound)]]

PolicyTypes == {"must", "must_not", "escalate", "style", "format"}

extract_policies(policies_raw, raw_lines, naFound, case_type) ==
    [i \in DOMAIN policies_raw |->
        [id |-> Id("pol", i),
         type |-> IF policies_raw[i].type \in PolicyTypes
                  THEN policies_raw[i].type ELSE "must",
         case |-> case_type,
         evidence |-> RecordEvidence(policies_raw[i], raw_lines, naFound)]]

(***************************************************************************)
(* Stage 2: test-case generation (test_case_generator.py).                 *)
(* A gateway test case is [policy_ids : optional sequence of ids].         *)
(***************************************************************************)
RECURSIVE FilterSeq(_, _)
FilterSeq(xs, S) ==
    IF xs = <<>> THEN <<>>
    ELSE IF Head(xs) \in S THEN <<Head(xs)>> \o FilterSeq(Tail(xs), S)
    ELSE FilterSeq(Tail(xs), S)

\* a repair that keeps the ids no policy has
RepairPolicyIdsNoFilter(tc_data, policy_ids) ==
    LET given == IF tc_data.policy_ids = None THEN <<>> ELSE tc_data.policy_ids[1]
    IN  IF given = <<>> THEN Take(policy_ids, 2) ELSE given

\* lines 75-80: the stored policy_ids of one gateway test case
RepairPolicyIds(tc_data, policy_ids) ==
    LET given == IF tc_data.policy_ids = None THEN <<>> ELSE tc_data.policy_ids[1]
        pids == FilterSeq(given, Range(policy_ids))
    IN  IF pids = <<>> THEN Take(policy_ids, 2) ELSE pids

\* lines 74-89: the test cases one use case's gateway answer adds
TestCasesOf(uc, case_type, tc_raw, policy_ids, tc_counter) ==
    LET kept == Take(tc_raw, N_TEST_CASES_PER_UC)
    IN  [i \in DOMAIN kept |->
            [id |-> Id("tc", tc_counter + i - 1),
             case |-> case_type,
             use_case_id |-> uc.id,
             policy_ids |-> RepairPolicyIds(kept[i], policy_ids)]]

PolicyIdsOf(policies) == [i \in DOMAIN policies |-> policies[i].id]

CaseTypeOf(use_cases) ==
    IF use_cases # <<>> THEN use_cases[1].case ELSE "support_bot"

(***************************************************************************)
(* Stage 3: dataset generation (dataset_generator.py).                     *)
(* A gateway example is [hasMessages : BOOLEAN, roles : sequence of        *)
(* optional roles, tmi : optional Int, nCriteria : Nat, source : STRING    *)
(* ("none": no metadata.source)].                                          *)
(***************************************************************************)
\* a format chosen from the 1-based position
_get_format_one_based(case_type, tc_index) ==
    IF case_type = "support_bot" THEN "single_turn_qa"
    ELSE IF (tc_index + 1) % 2 = 0 THEN "single_utterance_correction"
    ELSE "dialog_last_turn_correction"

\* tc_index is enumerate's 0-based index
_get_format_for_case(case_type, tc_index) ==
    IF case_type = "support_bot" THEN "single_turn_qa"
    ELSE IF tc_index % 2 = 0 THEN "single_utterance_correction"
    ELSE "dialog_last_turn_correction"

Sources == <<"tickets", "faq_paraphrase", "corner">>

\* a rotation over the first two labels only
_get_source_two_way(ex_index) == Sources[(ex_index % 2) + 1]

\* lines 23-26
_get_source_for_support(ex_index) == Sources[(ex_index % Len(Sources)) + 1]

\* lines 97-134: one example; ex_idx is 0-based
BuildExample(tc, fmt, ex_idx, ex_data, ex_counter) ==
    LET messages == [i \in DOMAIN ex_data.roles |->
                        IF ex_data.roles[i] = None THEN "user"
                        ELSE ex_data.roles[i][1]]
        tmi == IF fmt = "single_utterance_correction" THEN Some(0)
               ELSE IF fmt = "dialog_last_turn_correction" /\ ex_data.hasMessages
                    THEN Some(Len(messages) - 1)
               ELSE ex_data.tmi
    IN  [id |-> Id("ex", ex_counter),
         case |-> tc.case,
         format |-> fmt,
         use_case_id |-> tc.use_case_id,
         test_case_id |-> tc.id,
         input |-> [hasMessages |-> ex_data.hasMessages,
                    messages |-> IF ex_data.hasMessages THEN messages ELSE <<>>,
                    tmi |-> tmi],
         nCriteria |-> Max(3, ex_data.nCriteria),
         policy_ids |-> tc.policy_ids,
         source |-> IF tc.case = "support_bot"
                    THEN _get_source_for_support(ex_idx) ELSE ex_data.source,
         split |-> "test"]

\* lines 96-135: the batch of one test case under config.n_examples_per_tc;
\* tc_idx is 0-based
BuildBatchOf(n_examples_per_tc, tc, tc_idx, examples_raw, ex_counter) ==
    LET kept == Take(examples_raw, n_examples_per_tc)
        fmt == _get_format_for_case(tc.case, tc_idx)
    IN  [i \in DOMAIN kept |->
            BuildExample(tc, fmt, i - 1, kept[i], ex_counter + i - 1)]

\* the batch in the pipeline, which runs with N_EXAMPLES_PER_TC
BuildBatch(tc, tc_idx, examples_raw, ex_counter) ==
    BuildBatchOf(N_EXAMPLES_PER_TC, tc, tc_idx, examples_raw, ex_counter)

(***************************************************************************)
(* The generate command (__main__.py cmd_generate) as a state machine over *)
(* the output directory.  A file is absent, torn (a write was cut short:   *)
(* open(path, "w") truncates, json.dump then writes piecewise, so the file *)
(* holds no complete JSON document) or ok with its records.                *)
(***************************************************************************)
VARIABLES
    fs,                 \* the output directory: file name -> [st, recs]
    doc,                \* the input document: [lines, naFound, case]
    pc,                 \* where the running generate command is ("idle": none)
    runs,               \* generate commands started so far
    lastExit,           \* how the last command ended: none | ok | failed | killed
    use_cases, policies, test_cases,       \* cmd_generate's locals
    all_test_cases, tc_counter, uc_i,      \* generate_test_cases' locals
    all_examples, completed_tc_ids, ex_counter, tc_idx,  \* generate_dataset's locals
    startFs,            \* history: the directory when the command started
    written,            \* history: files the command opened for writing
    calls,              \* history: gateway calls of the command, <<stage, id>>
    persisted,          \* history: test cases whose batch save has completed
    startPersisted,     \* history: persisted when the command started
    input,              \* the input drawn for a function applied on its own
    output,             \* what the function returned
    called              \* the function applied so far ("none": not yet)

dirVars == <<fs, doc>>
procVars == <<pc, runs, lastExit>>
memVars == <<use_cases, policies, test_cases, all_test_cases, tc_counter, uc_i,
             all_examples, completed_tc_ids, ex_counter, tc_idx>>
histVars == <<startFs, written, calls, persisted, startPersisted>>
pipeVars == <<dirVars, procVars, memVars, histVars>>
funVars == <<input, output, called>>

FileNames == {"manifest", "uc", "pol", "tc", "ds"}
Absent == [st |-> "absent", recs |-> <<>>]
Torn == [st |-> "torn", recs |-> <<>>]
Ok(recs) == [st |-> "ok", recs |-> recs]

\* the gateway's answers the pipeline is run against
PipeRawUseCase == [evidence |-> None]
PipeRawPolicy == [type |-> "must", evidence |-> None]
PipeRawTestCase == [policy_ids |-> None]
PipeRawExample == [hasMessages |-> TRUE, roles |-> <<Some("operator")>>,
                   tmi |-> None, nCriteria |-> 3, source |-> "none"]
Repeat(x, n) == [i \in 1 .. n |-> x]

\* _unwrap(_load_json(path), key) is truthy: the file holds a non-empty list
Loaded(file) == file.st = "ok" /\ file.recs # <<>>

\* __main__.py line 92: if uc_list and pol_list
Stage1Resumes(dir) == Loaded(dir["uc"]) /\ Loaded(dir["pol"])
\* a resume test that looks at the wrong artifact
Stage2ResumesOnDataset(dir) == Loaded(dir["ds"])

\* __main__.py line 107: if tc_list
Stage2Resumes(dir) == Loaded(dir["tc"])

NoMemory ==
    /\ use_cases' = <<>> /\ policies' = <<>> /\ test_cases' = <<>>
    /\ all_test_cases' = <<>> /\ tc_counter' = 1 /\ uc_i' = 1
    /\ all_examples' = <<>> /\ completed_tc_ids' = {} /\ ex_counter' = 1
    /\ tc_idx' = 1

\* the command ends: by returning 0 ("ok"), by an exception ("failed") or by
\* the process being terminated ("killed")
Exit(how) == pc' = "idle" /\ lastExit' = how /\ runs' = runs /\ NoMemory

\* _save_json / _save_partial run to completion
Write(name, recs) ==
    /\ fs' = [fs EXCEPT ![name] = Ok(recs)]
    /\ written' = written \cup {name}

PipeInit ==
    /\ fs = [f \in FileNames |-> Absent]
    /\ doc \in {[lines |-> <<"text", "blank">>, naFound |-> FALSE, case |-> c] : c \in Cases}
    /\ pc = "idle" /\ runs = 0 /\ lastExit = "none"
    /\ use_cases = <<>> /\ policies = <<>> /\ test_cases = <<>>
    /\ all_test_cases = <<>> /\ tc_counter = 1 /\ uc_i = 1
    /\ all_examples = <<>> /\ completed_tc_ids = {} /\ ex_counter = 1 /\ tc_idx = 1
    /\ startFs = [f \in FileNames |-> Absent]
    /\ written = {} /\ calls = {} /\ persisted = {} /\ startPersisted = {}

\* no function is applied on its own while the pipeline runs
FunIdle == input = <<>> /\ output = <<>> /\ called = "none"

\* lines 43-83: the command starts; the manifest is written next
StartRun ==
    /\ pc = "idle" /\ runs < MaxRuns
    /\ pc' = "save_manifest" /\ runs' = runs + 1 /\ lastExit' = "none"
    /\ startFs' = fs /\ written' = {} /\ calls' = {}
    /\ startPersisted' = persisted
    /\ UNCHANGED <<dirVars, memVars, persisted>>
    /\ UNCHANGED funVars

\* line 84
SaveManifest ==
    /\ pc = "save_manifest"
    /\ Write("manifest", <<>>)
    /\ pc' = "stage1"
    /\ UNCHANGED <<doc, runs, lastExit, memVars, startFs, calls, persisted, startPersisted>>
    /\ UNCHANGED funVars

\* lines 86-96: load use_cases.json and policies.json; json.load raises on a
\* torn file
Stage1Load ==
    /\ pc = "stage1"
    /\ IF fs["uc"].st = "torn" \/ fs["pol"].st = "torn"
       THEN Exit("failed")
       ELSE IF Stage1Resumes(fs)
       THEN /\ use_cases' = fs["uc"].recs /\ policies' = fs["pol"].recs
            /\ pc' = "stage2"
            /\ UNCHANGED <<runs, lastExit, test_cases, all_test_cases, tc_counter,
                           uc_i, all_examples, completed_tc_ids, ex_counter, tc_idx>>
       ELSE /\ pc' = "extract_uc"
            /\ UNCHANGED <<runs, lastExit, memVars>>
    /\ UNCHANGED <<dirVars, histVars>>
    /\ UNCHANGED funVars

\* extractor.py run_extraction -> extract_use_cases: one gateway call
ExtractUseCases ==
    /\ pc = "extract_uc"
    /\ calls' = calls \cup {<<1, Id("uc", 0)>>}
    /\ \/ Exit("failed")
       \/ \E n \in 0 .. N_USE_CASES + 1 :
            /\ use_cases' = extract_use_cases(Repeat(PipeRawUseCase, n), doc.lines,
                                              doc.naFound, doc.case)
            /\ pc' = "extract_pol"
            /\ UNCHANGED <<runs, lastExit, policies, test_cases, all_test_cases,
                           tc_counter, uc_i, all_examples, completed_tc_ids,
                           ex_counter, tc_idx>>
    /\ UNCHANGED <<dirVars, startFs, written, persisted, startPersisted>>
    /\ UNCHANGED funVars

\* extractor.py run_extraction -> extract_policies: one gateway call
ExtractPolicies ==
    /\ pc = "extract_pol"
    /\ calls' = calls \cup {<<1, Id("pol", 0)>>}
    /\ \/ Exit("failed")
       \/ \E n \in 0 .. MaxPolicies :
            /\ policies' = extract_policies(Repeat(PipeRawPolicy, n), doc.lines,
                                            doc.naFound, doc.case)
            /\ pc' = "save_uc"
            /\ UNCHANGED <<runs, lastExit, use_cases, test_cases, all_test_cases,
                           tc_counter, uc_i, all_examples, completed_tc_ids,
                           ex_counter, tc_idx>>
    /\ UNCHANGED <<dirVars, startFs, written, persisted, startPersisted>>
    /\ UNCHANGED funVars

\* line 100
SaveUseCases ==
    /\ pc = "save_uc"
    /\ Write("uc", use_cases)
    /\ pc' = "save_pol"
    /\ UNCHANGED <<doc, runs, lastExit, memVars, startFs, calls, persisted, startPersisted>>
    /\ UNCHANGED funVars

\* line 101
SavePolicies ==
    /\ pc = "save_pol"
    /\ Write("pol", policies)
    /\ pc' = "stage2"
    /\ UNCHANGED <<doc, runs, lastExit, memVars, startFs, calls, persisted, startPersisted>>
    /\ UNCHANGED funVars

\* lines 103-112: load test_cases.json, or enter generate_test_cases
\* (test_case_generator.py lines 29-39); with no use case its loop ends at once
Stage2Load ==
    /\ pc = "stage2"
    /\ IF fs["tc"].st = "torn"
       THEN Exit("failed")
       ELSE IF Stage2Resumes(fs)
       THEN /\ test_cases' = fs["tc"].recs
            /\ pc' = "stage3"
            /\ UNCHANGED <<runs, lastExit, use_cases, policies, all_test_cases,
                           tc_counter, uc_i, all_examples, completed_tc_ids,
                           ex_counter, tc_idx>>
       ELSE /\ all_test_cases' = <<>> /\ tc_counter' = 1 /\ uc_i' = 1
            /\ test_cases' = <<>>
            /\ pc' = IF use_cases = <<>> THEN "save_tc" ELSE "gen_tc"
            /\ UNCHANGED <<runs, lastExit, use_cases, policies, all_examples,
                           completed_tc_ids, ex_counter, tc_idx>>
    /\ UNCHANGED <<dirVars, histVars>>
    /\ UNCHANGED funVars

\* test_case_generator.py lines 41-89: one pass of the loop over use cases, with
\* its gateway call; after the last use case the list is returned (line 92)
GenerateTestCases ==
    /\ pc = "gen_tc"
    /\ calls' = calls \cup {<<2, use_cases[uc_i].id>>}
    /\ \/ Exit("failed")
       \/ \E n \in 0 .. N_TEST_CASES_PER_UC + 1 :
            LET new == TestCasesOf(use_cases[uc_i], CaseTypeOf(use_cases),
                                   Repeat(PipeRawTestCase, n),
                                   PolicyIdsOf(policies), tc_counter)
                last == uc_i = Len(use_cases)
            IN  /\ all_test_cases' = IF last THEN <<>> ELSE all_test_cases \o new
                /\ test_cases' = IF last THEN all_test_cases \o new ELSE test_cases
                /\ tc_counter' = IF last THEN 1 ELSE tc_counter + Len(new)
                /\ uc_i' = IF last THEN 1 ELSE uc_i + 1
                /\ pc' = IF last THEN "save_tc" ELSE "gen_tc"
                /\ UNCHANGED <<runs, lastExit, use_cases, policies, all_examples,
                               completed_tc_ids, ex_counter, tc_idx>>
    /\ UNCHANGED <<dirVars, startFs, written, persisted, startPersisted>>
    /\ UNCHANGED funVars

\* line 114
SaveTestCases ==
    /\ pc = "save_tc"
    /\ Write("tc", test_cases)
    /\ pc' = "stage3"
    /\ UNCHANGED <<doc, runs, lastExit, memVars, startFs, calls, persisted, startPersisted>>
    /\ UNCHANGED funVars

(***************************************************************************)
(* generate_dataset (dataset_generator.py lines 29-142).                   *)
(***************************************************************************)
UseCaseIds(ucs) == {ucs[i].id : i \in DOMAIN ucs}
TestCaseIdsOf(examples) == {examples[i].test_case_id : i \in DOMAIN examples}

\* a loop that forgets the completed_tc_ids test of line 68
RECURSIVE NextTestCaseNoSkip(_, _, _, _)
NextTestCaseNoSkip(tcs, from, completed, ucs) ==
    IF from > Len(tcs) THEN Len(tcs) + 1
    ELSE IF tcs[from].use_case_id \notin UseCaseIds(ucs)
         THEN NextTestCaseNoSkip(tcs, from + 1, completed, ucs)
    ELSE from

\* lines 67-73: the first test case at position from or later (1-based) that is
\* neither completed nor without its use case; Len + 1 when there is none
RECURSIVE NextTestCase(_, _, _, _)
NextTestCase(tcs, from, completed, ucs) ==
    IF from > Len(tcs) THEN Len(tcs) + 1
    ELSE IF tcs[from].id \in completed THEN NextTestCase(tcs, from + 1, completed, ucs)
    ELSE IF tcs[from].use_case_id \notin UseCaseIds(ucs)
         THEN NextTestCase(tcs, from + 1, completed, ucs)
    ELSE from

\* a counter that starts every run at 1
FirstExampleNumberOne(existing) == 1

\* line 65: ex_counter = len(all_examples) + 1
FirstExampleNumber(existing) == Len(existing) + 1

\* lines 46-65: load the persisted examples, then enter the loop
DatasetLoad ==
    /\ pc = "stage3"
    /\ IF fs["ds"].st = "torn"
       THEN Exit("failed")
       ELSE LET existing == fs["ds"].recs
                done == TestCaseIdsOf(existing)
                first == NextTestCase(test_cases, 1, done, use_cases)
            IN  /\ all_examples' = existing
                /\ completed_tc_ids' = done
                /\ ex_counter' = FirstExampleNumber(existing)
                /\ tc_idx' = first
                /\ pc' = IF first > Len(test_cases) THEN "final_save" ELSE "ds_call"
                /\ UNCHANGED <<runs, lastExit, use_cases, policies, test_cases,
                               all_test_cases, tc_counter, uc_i>>
    /\ UNCHANGED <<dirVars, histVars>>
    /\ UNCHANGED funVars

\* lines 75-135: the gateway call for test_cases[tc_idx] and its batch.  The
\* call fails terminally (lines 85-90: save, then raise), or answers with
\* examples, or answers with something pydantic rejects (the exception leaves
\* generate_dataset without a save)
DatasetCall ==
    /\ pc = "ds_call"
    /\ calls' = calls \cup {<<3, test_cases[tc_idx].id>>}
    /\ \/ /\ pc' = "save_failed"
          /\ UNCHANGED <<runs, lastExit, memVars>>
       \/ Exit("failed")
       \/ \E n \in 0 .. N_EXAMPLES_PER_TC + 1 :
            LET batch == BuildBatch(test_cases[tc_idx], tc_idx - 1,
                                    Repeat(PipeRawExample, n), ex_counter)
            IN  /\ all_examples' = all_examples \o batch
                /\ ex_counter' = ex_counter + Len(batch)
                /\ pc' = "save_partial"
                /\ UNCHANGED <<runs, lastExit, use_cases, policies, test_cases,
                               all_test_cases, tc_counter, uc_i, completed_tc_ids,
                               tc_idx>>
    /\ UNCHANGED <<dirVars, startFs, written, persisted, startPersisted>>
    /\ UNCHANGED funVars

\* lines 137-139, then the loop goes on (lines 67-73) or ends (line 142)
SavePartial ==
    /\ pc = "save_partial"
    /\ Write("ds", all_examples)
    /\ persisted' = persisted \cup {test_cases[tc_idx].id}
    /\ LET next == NextTestCase(test_cases, tc_idx + 1, completed_tc_ids, use_cases)
       IN  /\ tc_idx' = next
           /\ pc' = IF next > Len(test_cases) THEN "final_save" ELSE "ds_call"
    /\ UNCHANGED <<doc, runs, lastExit, use_cases, policies, test_cases,
                   all_test_cases, tc_counter, uc_i, all_examples,
                   completed_tc_ids, ex_counter, startFs, calls, startPersisted>>
    /\ UNCHANGED funVars

\* a failure that is re-raised without the save
SaveFailedNoSave ==
    /\ pc = "save_failed"
    /\ Exit("failed")
    /\ UNCHANGED <<dirVars, histVars>>
    /\ UNCHANGED funVars

\* lines 88-90: the save before the gateway's failure is re-raised
SaveFailed ==
    /\ pc = "save_failed"
    /\ Write("ds", all_examples)
    /\ Exit("failed")
    /\ UNCHANGED <<doc, startFs, calls, persisted, startPersisted>>
    /\ UNCHANGED funVars

\* __main__.py lines 120-129: the last save, and return 0
FinalSave ==
    /\ pc = "final_save"
    /\ Write("ds", all_examples)
    /\ Exit("ok")
    /\ UNCHANGED <<doc, startFs, calls, persisted, startPersisted>>
    /\ UNCHANGED funVars

\* the file a save at pc writes
SaveTarget ==
    [p \in {"save_manifest", "save_uc", "save_pol", "save_tc", "save_partial",
            "save_failed", "final_save"} |->
        CASE p = "save_manifest" -> "manifest"
          [] p = "save_uc" -> "uc"
          [] p = "save_pol" -> "pol"
          [] p = "save_tc" -> "tc"
          [] OTHER -> "ds"]

\* the process is terminated between two steps
Kill ==
    /\ pc # "idle"
    /\ Exit("killed")
    /\ UNCHANGED <<dirVars, histVars>>
    /\ UNCHANGED funVars

\* the process is terminated inside a save: the file was truncated by
\* open(path, "w") and holds at most a part of the document
KillDuringSave ==
    /\ pc \in DOMAIN SaveTarget
    /\ fs' = [fs EXCEPT ![SaveTarget[pc]] = Torn]
    /\ written' = written \cup {SaveTarget[pc]}
    /\ Exit("killed")
    /\ UNCHANGED <<doc, startFs, calls, persisted, startPersisted>>
    /\ UNCHANGED funVars

(***************************************************************************)
(* The validator (validator.py).  An artifact file as validate loads it is *)
(* [shape, recs]: a dict with the expected key, a bare list, or something  *)
(* else (recs is then empty).  A record carries the fields the schema and  *)
(* the checks read; complete says that its remaining required fields are   *)
(* present and well typed.  A report entry is [kind, file, idx, ref,       *)
(* missing], idx being the record's 0-based position as in the messages.   *)
(***************************************************************************)
MinUseCases == 5
MinPolicies == 5
MinPolicyTypes == 2
MinTestCasesPerUc == 3

Formats == {"single_turn_qa", "single_utterance_correction",
            "dialog_last_turn_correction"}
RequiredFiles == <<"manifest", "uc", "pol", "tc", "ds">>
RequiredSources == {"tickets", "faq_paraphrase", "corner"}
RequiredFormats == {"single_utterance_correction", "dialog_last_turn_correction"}

NoRef == Id("", 0)
Entry(kind, file, idx, ref, missing) ==
    [kind |-> kind, file |-> file, idx |-> idx, ref |-> ref, missing |-> missing]
Plain(kind, file, idx) == Entry(kind, file, idx, NoRef, {})

RECURSIVE Flatten(_)
Flatten(seqs) == IF seqs = <<>> THEN <<>> ELSE Head(seqs) \o Flatten(Tail(seqs))

\* the order-preserving list of the distinct elements (a dict's key order)
RECURSIVE Distinct(_)
Distinct(xs) ==
    IF xs = <<>> THEN <<>>
    ELSE LET front == Distinct(SubSeq(xs, 1, Len(xs) - 1))
             last == xs[Len(xs)]
         IN  IF last \in Range(front) THEN front ELSE Append(front, last)

\* models.py: the pydantic models
UseCaseValid(u) ==
    u.id[1] = "uc" /\ u.case \in Cases /\ u.complete /\ u.evidence # <<>>
PolicyValid(p) ==
    /\ p.id[1] = "pol" /\ p.type \in PolicyTypes /\ p.case \in Cases
    /\ p.complete /\ p.evidence # <<>>
TestCaseValid(t) ==
    t.id[1] = "tc" /\ t.case \in Cases /\ t.use_case_id[1] = "uc" /\ t.complete
DatasetExampleValid(x) ==
    /\ x.id[1] = "ex" /\ x.case \in Cases /\ x.format \in Formats
    /\ x.use_case_id[1] = "uc" /\ x.test_case_id[1] = "tc"
    /\ x.nCriteria >= 3 /\ x.complete

RecordValid(file, r) ==
    CASE file = "uc" -> UseCaseValid(r)
      [] file = "pol" -> PolicyValid(r)
      [] file = "tc" -> TestCaseValid(r)
      [] OTHER -> DatasetExampleValid(r)

\* an id set that takes every record, valid or not
IdSetOfAll(file, list) == {list[i].id : i \in DOMAIN list}

\* use_case_ids, policy_ids, test_case_ids: the ids of the records that pass
\* their schema
IdSet(file, list) ==
    {list[i].id : i \in {j \in DOMAIN list : RecordValid(file, list[j])}}

\* lines 122-129 (and 146-153, 175-182, 206-213)
ListOf(raw) == IF raw.shape = "other" THEN <<>> ELSE raw.recs
WrapperErrors(file, raw) ==
    IF raw.shape = "other" THEN <<Plain("wrapper", file, 0)>> ELSE <<>>
WrapperWarnings(file, raw) ==
    IF raw.shape = "list" THEN <<Plain("bare_array", file, 0)>> ELSE <<>>

SchemaErrors(file, list) ==
    Flatten([i \in DOMAIN list |->
        IF RecordValid(file, list[i]) THEN <<>>
        ELSE <<Plain("schema", file, i - 1)>>])

\* _validate_evidence_quote; input_lines is None or Some(number of lines)
EvidenceWarning(file, idx, ev, input_lines) ==
    IF input_lines = None THEN <<>>
    ELSE IF ev.line_start < 1 \/ ev.line_end < ev.line_start
            \/ ev.line_end > input_lines[1]
         THEN <<Plain("evidence_range", file, idx)>>
    ELSE IF ~ev.quoteOk THEN <<Plain("evidence_quote", file, idx)>>
    ELSE <<>>

EvidenceWarnings(file, list, input_lines) ==
    Flatten([i \in DOMAIN list |->
        IF RecordValid(file, list[i])
        THEN Flatten([k \in DOMAIN list[i].evidence |->
                 EvidenceWarning(file, i - 1, list[i].evidence[k], input_lines)])
        ELSE <<>>])

\* lines 109-117
ManifestErrors(manifest) ==
    IF manifest = "invalid" THEN <<Plain("manifest", "manifest", 0)>> ELSE <<>>

\* lines 131-141
UseCaseErrors(raw) ==
    LET list == ListOf(raw)
    IN  WrapperErrors("uc", raw)
        \o (IF Len(list) < MinUseCases THEN <<Plain("min_use_cases", "uc", 0)>> ELSE <<>>)
        \o SchemaErrors("uc", list)

\* lines 155-169
PolicyErrors(raw) ==
    LET list == ListOf(raw)
        policy_types == {list[i].type : i \in {j \in DOMAIN list : PolicyValid(list[j])}}
    IN  WrapperErrors("pol", raw)
        \o (IF Len(list) < MinPolicies THEN <<Plain("min_policies", "pol", 0)>> ELSE <<>>)
        \o SchemaErrors("pol", list)
        \o (IF Cardinality(policy_types) < MinPolicyTypes
            THEN <<Plain("min_policy_types", "pol", 0)>> ELSE <<>>)

\* lines 192-196 (and 233-237): one error for every policy id that does not
\* resolve, one more when the list is empty
PolicyRefErrors(file, idx, pids, policy_ids) ==
    Flatten([k \in DOMAIN pids |->
        IF pids[k] \notin policy_ids
        THEN <<Entry("ref_policy", file, idx, pids[k], {})>> ELSE <<>>])
    \o (IF pids = <<>> THEN <<Plain("no_policy_id", file, idx)>> ELSE <<>>)

\* lines 186-198: one test case
TestCaseErrors(tc, idx, use_case_ids, policy_ids) ==
    IF ~TestCaseValid(tc) THEN <<Plain("schema", "tc", idx)>>
    ELSE (IF tc.use_case_id \notin use_case_ids
          THEN <<Entry("ref_use_case", "tc", idx, tc.use_case_id, {})>> ELSE <<>>)
         \o PolicyRefErrors("tc", idx, tc.policy_ids, policy_ids)

\* lines 189 and 200-202: tc_per_uc counts the valid test cases of every use
\* case id that some valid test case names
FloorErrors(tc_list, use_case_ids) ==
    LET valid == SelectSeq(tc_list, TestCaseValid)
        named == Distinct([i \in DOMAIN valid |-> valid[i].use_case_id])
        Count(u) == Cardinality({i \in DOMAIN valid : valid[i].use_case_id = u})
    IN  Flatten([k \in DOMAIN named |->
            IF Count(named[k]) < MinTestCasesPerUc
            THEN <<Entry("tc_floor", "tc", 0, named[k], {})>> ELSE <<>>])

\* lines 184-202
TestCasePhaseErrors(raw, use_case_ids, policy_ids) ==
    LET list == ListOf(raw)
    IN  WrapperErrors("tc", raw)
        \o Flatten([i \in DOMAIN list |->
               TestCaseErrors(list[i], i - 1, use_case_ids, policy_ids)])
        \o FloorErrors(list, use_case_ids)

\* obj.input.get("messages", [])
MessagesOf(ex) == IF ex.input.hasMessages THEN ex.input.messages ELSE <<>>

\* a single-utterance check that reports a wrong role as a warning
SingleUtteranceErrorsNone(ex, idx) == <<>>

\* lines 245-254, the errors
SingleUtteranceErrors(ex, idx) ==
    LET messages == MessagesOf(ex)
    IN  IF messages # <<>> /\ messages[1] # "operator"
        THEN <<Plain("single_role", "ds", idx)>> ELSE <<>>

\* lines 245-254, the warnings
SingleUtteranceWarnings(ex, idx) ==
    LET messages == MessagesOf(ex)
        tmi == ex.input.tmi
    IN  (IF Len(messages) # 1 THEN <<Plain("single_count", "ds", idx)>> ELSE <<>>)
        \o (IF tmi = None THEN <<Plain("single_tmi_missing", "ds", idx)>>
            ELSE IF tmi[1] # 0 THEN <<Plain("single_tmi_wrong", "ds", idx)>>
            ELSE <<>>)

\* a dialog check that compares target_message_index with len(messages)
DialogErrorsOffByOne(ex, idx) ==
    LET messages == MessagesOf(ex)
        tmi == ex.input.tmi
    IN  (IF Len(messages) < 2 THEN <<Plain("dialog_count", "ds", idx)>> ELSE <<>>)
        \o (IF messages # <<>> /\ messages[Len(messages)] # "operator"
            THEN <<Plain("dialog_role", "ds", idx)>> ELSE <<>>)
        \o (IF tmi = None THEN <<Plain("dialog_tmi_missing", "ds", idx)>>
            ELSE IF tmi[1] # Len(messages) THEN <<Plain("dialog_tmi_wrong", "ds", idx)>>
            ELSE <<>>)

\* lines 256-265
DialogErrors(ex, idx) ==
    LET messages == MessagesOf(ex)
        tmi == ex.input.tmi
    IN  (IF Len(messages) < 2 THEN <<Plain("dialog_count", "ds", idx)>> ELSE <<>>)
        \o (IF messages # <<>> /\ messages[Len(messages)] # "operator"
            THEN <<Plain("dialog_role", "ds", idx)>> ELSE <<>>)
        \o (IF tmi = None THEN <<Plain("dialog_tmi_missing", "ds", idx)>>
            ELSE IF tmi[1] # Len(messages) - 1
                 THEN <<Plain("dialog_tmi_wrong", "ds", idx)>>
            ELSE <<>>)

\* lines 221-272: the errors of one example
ExampleErrors(ex, idx, use_case_ids, test_case_ids, policy_ids) ==
    IF ~DatasetExampleValid(ex) THEN <<Plain("schema", "ds", idx)>>
    ELSE (IF ex.use_case_id \notin use_case_ids
          THEN <<Entry("ref_use_case", "ds", idx, ex.use_case_id, {})>> ELSE <<>>)
         \o (IF ex.test_case_id \notin test_case_ids
             THEN <<Entry("ref_test_case", "ds", idx, ex.test_case_id, {})>> ELSE <<>>)
         \o PolicyRefErrors("ds", idx, ex.policy_ids, policy_ids)
         \o (IF MessagesOf(ex) = <<>> THEN <<Plain("messages_empty", "ds", idx)>> ELSE <<>>)
         \o (IF ex.format = "single_utterance_correction"
             THEN SingleUtteranceErrors(ex, idx)
             ELSE IF ex.format = "dialog_last_turn_correction"
             THEN DialogErrors(ex, idx)
             ELSE <<>>)

\* lines 245-254 and 267-269: the warnings of one example
ExampleWarnings(ex, idx) ==
    IF ~DatasetExampleValid(ex) THEN <<>>
    ELSE (IF ex.format = "single_utterance_correction"
          THEN SingleUtteranceWarnings(ex, idx) ELSE <<>>)
         \o (IF ex.case = "support_bot" /\ ex.source = "none"
             THEN <<Plain("no_source", "ds", idx)>> ELSE <<>>)

\* lines 274-277: test_case_ids is a set, the order of these errors is that of
\* its iteration; the model lists them in the order of test_cases.json
NoExampleErrors(tc_list, ds_list) ==
    LET ids == Distinct([i \in DOMAIN SelectSeq(tc_list, TestCaseValid) |->
                            SelectSeq(tc_list, TestCaseValid)[i].id])
        covered == TestCaseIdsOf(SelectSeq(ds_list, DatasetExampleValid))
    IN  Flatten([k \in DOMAIN ids |->
            IF ids[k] \notin covered
            THEN <<Entry("no_examples", "tc", 0, ids[k], {})>> ELSE <<>>])

\* a coverage check that does not ask for the third source
CaseCoverageErrorsTwoSources(ds_list) ==
    LET valid == SelectSeq(ds_list, DatasetExampleValid)
        sources_seen == {valid[i].source : i \in DOMAIN valid} \ {"none"}
        formats_seen == {valid[i].format : i \in DOMAIN valid}
        case_type == IF ds_list # <<>> THEN ds_list[1].case ELSE "none"
        missing == IF case_type = "support_bot"
                   THEN {"tickets", "faq_paraphrase"} \ sources_seen
                   ELSE IF case_type = "operator_quality"
                   THEN RequiredFormats \ formats_seen
                   ELSE {}
    IN  IF missing # {} THEN <<Entry("coverage", "ds", 0, NoRef, missing)>> ELSE <<>>

\* lines 223-226 and 286-299
CaseCoverageErrors(ds_list) ==
    LET valid == SelectSeq(ds_list, DatasetExampleValid)
        sources_seen == {valid[i].source : i \in DOMAIN valid} \ {"none"}
        formats_seen == {valid[i].format : i \in DOMAIN valid}
        case_type == IF ds_list # <<>> THEN ds_list[1].case ELSE "none"
        missing == IF case_type = "support_bot"
                   THEN RequiredSources \ sources_seen
                   ELSE IF case_type = "operator_quality"
                   THEN RequiredFormats \ formats_seen
                   ELSE {}
    IN  IF missing # {} THEN <<Entry("coverage", "ds", 0, NoRef, missing)>> ELSE <<>>

\* lines 204-299
DatasetPhaseErrors(raw, tc_list, use_case_ids, test_case_ids, policy_ids) ==
    LET list == ListOf(raw)
    IN  WrapperErrors("ds", raw)
        \o Flatten([i \in DOMAIN list |->
               ExampleErrors(list[i], i - 1, use_case_ids, test_case_ids, policy_ids)])
        \o NoExampleErrors(tc_list, list)
        \o CaseCoverageErrors(list)

\* a presence test that does not ask for run_manifest.json
MissingFileErrorsNoManifest(missing) ==
    Flatten([k \in DOMAIN RequiredFiles |->
        IF RequiredFiles[k] \in missing \ {"manifest"}
        THEN <<Plain("missing_file", RequiredFiles[k], 0)>> ELSE <<>>])

\* lines 95-99
MissingFileErrors(missing) ==
    Flatten([k \in DOMAIN RequiredFiles |->
        IF RequiredFiles[k] \in missing
        THEN <<Plain("missing_file", RequiredFiles[k], 0)>> ELSE <<>>])

\* validate(out_path, input_path): the report
validate(in) ==
    IF in.missing # {}
    THEN [errors |-> MissingFileErrors(in.missing), warnings |-> <<>>]
    ELSE LET use_case_ids == IdSet("uc", ListOf(in.uc))
             policy_ids == IdSet("pol", ListOf(in.pol))
             test_case_ids == IdSet("tc", ListOf(in.tc))
             ds_list == ListOf(in.ds)
         IN  [errors |->
                 ManifestErrors(in.manifest)
                 \o UseCaseErrors(in.uc)
                 \o PolicyErrors(in.pol)
                 \o TestCasePhaseErrors(in.tc, use_case_ids, policy_ids)
                 \o DatasetPhaseErrors(in.ds, ListOf(in.tc), use_case_ids,
                                       test_case_ids, policy_ids),
              warnings |->
                 WrapperWarnings("uc", in.uc)
                 \o EvidenceWarnings("uc", ListOf(in.uc), in.input_lines)
                 \o WrapperWarnings("pol", in.pol)
                 \o EvidenceWarnings("pol", ListOf(in.pol), in.input_lines)
                 \o WrapperWarnings("tc", in.tc)
                 \o WrapperWarnings("ds", in.ds)
                 \o Flatten([i \in DOMAIN ds_list |->
                        ExampleWarnings(ds_list[i], i - 1)])]

\* an exit status that warnings change as well
run_validationStrict(in) ==
    LET report == validate(in)
    IN  [report |-> report,
         exit |-> IF Len(report.errors) + Len(report.warnings) = 0 THEN 0 ELSE 1]

\* ValidationReport.ok and run_validation
run_validation(in) ==
    LET report == validate(in)
    IN  [report |-> report, exit |-> IF Len(report.errors) = 0 THEN 0 ELSE 1]

(***************************************************************************)
(* The output directories the validator is applied to.                     *)
(***************************************************************************)
MaxMessages == 4
MaxDataset == 3
MaxPolicyIds == 2

SeqsUpTo(n, S) == UNION {[1..k -> S] : k \in 0..n}

GoodEvidence == <<[line_start |-> 1, line_end |-> 1, quoteOk |-> TRUE]>>
GoodUseCase(i, c) ==
    [id |-> Id("uc", i), case |-> c, complete |-> TRUE, evidence |-> GoodEvidence]
GoodPolicy(i, c) ==
    [id |-> Id("pol", i), type |-> IF i % 2 = 1 THEN "must" ELSE "style",
     case |-> c, complete |-> TRUE, evidence |-> GoodEvidence]
GoodTestCase(i, c, u) ==
    [id |-> Id("tc", i), case |-> c, use_case_id |-> Id("uc", u),
     complete |-> TRUE, policy_ids |-> <<Id("pol", 1)>>]
\* the example stage 3 builds for test case t (0-based position t - 1)
GoodExample(i, c, u, t) ==
    LET fmt == _get_format_for_case(c, t - 1)
    IN  [id |-> Id("ex", i), case |-> c, format |-> fmt,
         use_case_id |-> Id("uc", u), test_case_id |-> Id("tc", t),
         input |-> [hasMessages |-> TRUE,
                    messages |-> IF fmt = "single_turn_qa" THEN <<"user">>
                                 ELSE IF fmt = "single_utterance_correction"
                                 THEN <<"operator">>
                                 ELSE <<"user", "operator">>,
                    tmi |-> IF fmt = "single_turn_qa" THEN None
                            ELSE IF fmt = "single_utterance_correction"
                            THEN Some(0) ELSE Some(1)],
         nCriteria |-> 3, policy_ids |-> <<Id("pol", 1)>>,
         source |-> IF c = "support_bot" THEN Sources[((i - 1) % 3) + 1] ELSE "none",
         complete |-> TRUE]

Wrapped(recs) == [shape |-> "dict", recs |-> recs]
Directory(uc, pol, tc, ds) ==
    [missing |-> {}, manifest |-> "valid", input_lines |-> Some(1),
     uc |-> uc, pol |-> pol, tc |-> tc, ds |-> ds]
SmallDirectory(c, ds) ==
    Directory(Wrapped(<<GoodUseCase(1, c)>>), Wrapped(<<GoodPolicy(1, c)>>),
              Wrapped(<<GoodTestCase(1, c, 1)>>), Wrapped(ds))

\* use case u has cnt[u] test cases; every test case has one example
RECURSIVE Cum(_, _)
Cum(cnt, u) == IF u = 0 THEN 0 ELSE Cum(cnt, u - 1) + cnt[u]
OwnerOf(cnt, k) == CHOOSE u \in DOMAIN cnt : Cum(cnt, u - 1) < k /\ k <= Cum(cnt, u)
CountedDirectory(c, cnt) ==
    LET n == Len(cnt)
        total == Cum(cnt, n)
    IN  Directory(Wrapped([u \in 1..n |-> GoodUseCase(u, c)]),
                  Wrapped([p \in 1..MinPolicies |-> GoodPolicy(p, c)]),
                  Wrapped([k \in 1..total |-> GoodTestCase(k, c, OwnerOf(cnt, k))]),
                  Wrapped([k \in 1..total |-> GoodExample(k, c, OwnerOf(cnt, k), k)]))
CountedDirectories ==
    {CountedDirectory(c, cnt) :
        c \in Cases, cnt \in [1..MinUseCases -> 0..MinTestCasesPerUc]}
    \cup {CountedDirectory("support_bot", cnt) :
            cnt \in [1..(MinUseCases - 1) -> 0..MinTestCasesPerUc]}

\* one example of any shape
InputProbes ==
    LET tmis == {None} \cup {Some(k) : k \in -1..MaxMessages}
    IN  {[hasMessages |-> FALSE, messages |-> <<>>, tmi |-> t] : t \in tmis}
        \cup {[hasMessages |-> TRUE, messages |-> m, tmi |-> t] :
                m \in SeqsUpTo(MaxMessages, {"user", "operator"}), t \in tmis}
ShapeDirectories ==
    {SmallDirectory(c, <<[GoodExample(1, c, 1, 1) EXCEPT
                            !.format = f, !.input = inp, !.source = s,
                            !.complete = b]>>) :
        c \in Cases, f \in Formats, inp \in InputProbes,
        s \in {"none", "tickets"}, b \in BOOLEAN}

\* foreign keys that name a valid record, a record that fails its schema, or
\* no record at all
RefDirectories ==
    LET c == "operator_quality"
        ucs == <<GoodUseCase(1, c), [GoodUseCase(2, c) EXCEPT !.case = "other"]>>
        pols == <<GoodPolicy(1, c), [GoodPolicy(2, c) EXCEPT !.type = "other"]>>
        ucRefs == {Id("uc", k) : k \in 1..3}
        tcRefs == {Id("tc", k) : k \in 1..3}
        polRefs == SeqsUpTo(MaxPolicyIds, {Id("pol", k) : k \in 1..3})
    IN  {Directory(Wrapped(ucs), Wrapped(pols),
            Wrapped(<<[GoodTestCase(1, c, 1) EXCEPT
                          !.use_case_id = tu, !.policy_ids = tp],
                      [GoodTestCase(2, c, 1) EXCEPT !.complete = FALSE]>>),
            Wrapped(<<[GoodExample(1, c, 1, 1) EXCEPT
                          !.use_case_id = eu, !.test_case_id = et,
                          !.policy_ids = ep]>>)) :
            tu \in ucRefs, tp \in SeqsUpTo(1, {Id("pol", k) : k \in 1..3}),
            eu \in ucRefs, et \in tcRefs, ep \in polRefs}

\* datasets of one case type, and datasets that mix the two
CoverageDirectories ==
    LET Ex(c, f, s, b) == [GoodExample(1, c, 1, 1) EXCEPT
                              !.format = f, !.source = s, !.complete = b,
                              !.input = GoodExample(1, "operator_quality", 1,
                                  IF f = "dialog_last_turn_correction"
                                  THEN 2 ELSE 1).input]
        srcs == {"none"} \cup RequiredSources
        support == {Ex("support_bot", "single_turn_qa", s, b) :
                       s \in srcs, b \in BOOLEAN}
        operator == {Ex("operator_quality", f, "none", b) :
                        f \in Formats, b \in BOOLEAN}
        mixed == {Ex(c, f, s, TRUE) :
                     c \in Cases, f \in Formats, s \in {"none", "corner"}}
    IN  {SmallDirectory("support_bot", ds) : ds \in SeqsUpTo(MaxDataset, support)}
        \cup {SmallDirectory("operator_quality", ds) :
                ds \in SeqsUpTo(MaxDataset, operator)}
        \cup {SmallDirectory(c, ds) : c \in Cases, ds \in [1..2 -> mixed]}

\* files that are missing, are not wrapped, or hold something else
FileDirectories ==
    LET c == "support_bot"
        base == CountedDirectory(c, [u \in 1..MinUseCases |-> MinTestCasesPerUc])
        Shaped(raw, sh) == [shape |-> sh, recs |-> IF sh = "other" THEN <<>> ELSE raw.recs]
        shapes == {"dict", "list", "other"}
    IN  {[base EXCEPT !.missing = m, !.manifest = mf,
                  !.uc = Shaped(base.uc, s1), !.ds = Shaped(base.ds, s4)] :
                m \in SUBSET Range(RequiredFiles), mf \in {"valid", "invalid"},
                s1 \in shapes, s4 \in shapes}
        \cup {[base EXCEPT !.manifest = mf, !.input_lines = il,
                  !.uc = Shaped(base.uc, s1), !.pol = Shaped(base.pol, s2),
                  !.tc = Shaped(base.tc, s3), !.ds = Shaped(base.ds, s4)] :
                mf \in {"valid", "invalid", "empty"},
                il \in {None, Some(0), Some(1)},
                s1 \in shapes, s2 \in shapes, s3 \in shapes, s4 \in shapes}

DirectoryFamilies == {"counted", "shape", "ref", "coverage", "file"}
Directories(family) ==
    CASE family = "counted" -> CountedDirectories
      [] family = "shape" -> ShapeDirectories
      [] family = "ref" -> RefDirectories
      [] family = "coverage" -> CoverageDirectories
      [] OTHER -> FileDirectories

\* the pipeline does not run while a function is applied
PipeIdle == PipeInit /\ doc.case = "support_bot"

ValidateInit ==
    /\ PipeIdle
    /\ \E family \in DirectoryFamilies : input \in Directories(family)
    /\ output = <<>>
    /\ called = "none"

\* python -m dataset_generator validate
RunValidation ==
    /\ called = "none"
    /\ called' = "validate"
    /\ output' = run_validation(input)
    /\ UNCHANGED <<input, pipeVars>>

SpecValidate == ValidateInit /\ [][RunValidation]_<<pipeVars, funVars>>

(***************************************************************************)
(* Stage 1 applied on its own: any document, any gateway answer.           *)
(***************************************************************************)
MaxLines == 2
MaxEvidence == 1

Documents == SeqsUpTo(MaxLines, {"text", "blank"})
RawLineNumbers == {None} \cup {Some(k) : k \in -1..(MaxLines + 1)}
RawEvidence ==
    [line_start : RawLineNumbers, line_end : RawLineNumbers,
     quote : {"", "q"}, found : BOOLEAN]
RawRecords ==
    [evidence : {None} \cup {Some(e) : e \in SeqsUpTo(MaxEvidence, RawEvidence)},
     type : {"must", "other"}]
\* answers of one record, and longer answers of records without evidence
RawAnswers ==
    SeqsUpTo(1, RawRecords)
    \cup {[i \in 1..n |-> [evidence |-> None, type |-> "style"]] :
            n \in 2..(N_USE_CASES + 1)}

ExtractInit ==
    /\ PipeIdle
    /\ input \in [raw_lines : Documents, naFound : BOOLEAN,
                  case_type : {"support_bot"}, answer : RawAnswers]
    /\ output = <<>>
    /\ called = "none"

\* lines 99-115
RunExtractUseCases ==
    /\ called = "none"
    /\ called' = "extract_use_cases"
    /\ output' = extract_use_cases(input.answer, input.raw_lines, input.naFound,
                                   input.case_type)
    /\ UNCHANGED <<input, pipeVars>>

\* lines 160-184
RunExtractPolicies ==
    /\ called = "none"
    /\ called' = "extract_policies"
    /\ output' = extract_policies(input.answer, input.raw_lines, input.naFound,
                                  input.case_type)
    /\ UNCHANGED <<input, pipeVars>>

SpecExtract ==
    ExtractInit /\ [][RunExtractUseCases \/ RunExtractPolicies]_<<pipeVars, funVars>>

(***************************************************************************)
(* Stage 2 applied on its own: any policy list, any gateway answers.       *)
(***************************************************************************)
MaxKnownPolicies == 3

\* lines 38-91: answers[i] is the gateway's test_cases list for use_cases[i]
RECURSIVE generate_test_cases(_, _, _)
generate_test_cases(ucs, pols, answers) ==
    IF ucs = <<>> THEN <<>>
    ELSE LET n == Len(ucs)
             before == generate_test_cases(SubSeq(ucs, 1, n - 1), pols,
                                           SubSeq(answers, 1, n - 1))
         IN  before \o TestCasesOf(ucs[n], CaseTypeOf(ucs), answers[n],
                                   PolicyIdsOf(pols), Len(before) + 1)

\* policy ids a gateway may name: known ones and one that no policy has
NamedPolicyIds == {Id("pol", k) : k \in 1..2} \cup {Id("pol", MaxKnownPolicies + 1)}
RawTestCases ==
    [policy_ids : {None} \cup {Some(p) : p \in SeqsUpTo(MaxPolicyIds, NamedPolicyIds)}]
TestCaseAnswers ==
    SeqsUpTo(1, RawTestCases)
    \cup {[i \in 1..n |-> [policy_ids |-> None]] : n \in 2..(N_TEST_CASES_PER_UC + 1)}

Stage2Init ==
    /\ PipeIdle
    /\ \E c \in Cases, nu \in 0..N_USE_CASES, np \in 0..MaxKnownPolicies :
          input \in [use_cases : {[i \in 1..nu |-> [id |-> Id("uc", i), case |-> c]]},
                     policies : {[i \in 1..np |-> [id |-> Id("pol", i)]]},
                     answers : [1..nu -> TestCaseAnswers]]
    /\ output = <<>>
    /\ called = "none"

RunGenerateTestCases ==
    /\ called = "none"
    /\ called' = "generate_test_cases"
    /\ output' = generate_test_cases(input.use_cases, input.policies, input.answers)
    /\ UNCHANGED <<input, pipeVars>>

SpecStage2 == Stage2Init /\ [][RunGenerateTestCases]_<<pipeVars, funVars>>

(***************************************************************************)
(* Stage 3 applied on its own: one test case, any gateway answer, any       *)
(* target count of examples per test case.                                 *)
(***************************************************************************)
MaxRoles == 2
MaxExamplesPerTc == 4

RawRoles == {None, Some("user"), Some("operator")}
RawExamples ==
    [hasMessages : BOOLEAN, roles : SeqsUpTo(MaxRoles, RawRoles),
     tmi : {None} \cup {Some(k) : k \in 0..MaxRoles},
     nCriteria : {0, 3}, source : {"none", "tickets", "corner"}]
\* answers of one example of any shape
ShortAnswers == SeqsUpTo(1, {e \in RawExamples : e.hasMessages \/ e.roles = <<>>})
\* longer answers of one plain example
LongAnswers == {Repeat(PipeRawExample, n) : n \in 2..(MaxExamplesPerTc + 1)}
ExampleAnswers == ShortAnswers \cup LongAnswers

Stage3Inputs(answers, counts) ==
    [tc : {[id |-> Id("tc", 1), case |-> c, use_case_id |-> Id("uc", 1),
            policy_ids |-> <<Id("pol", 1)>>] : c \in Cases},
     tc_idx : 0..1,
     examples_raw : answers,
     ex_counter : {1, 3},
     n_examples_per_tc : counts]

\* every shape under the pipeline's target count, every length under every
\* target count
Stage3Init ==
    /\ PipeIdle
    /\ input \in Stage3Inputs(ShortAnswers, {N_EXAMPLES_PER_TC})
                 \cup Stage3Inputs(LongAnswers, 0..MaxExamplesPerTc)
    /\ output = <<>>
    /\ called = "none"

\* lines 92-135
RunBuildBatch ==
    /\ called = "none"
    /\ called' = "generate_dataset"
    /\ output' = BuildBatchOf(input.n_examples_per_tc, input.tc, input.tc_idx,
                              input.examples_raw, input.ex_counter)
    /\ UNCHANGED <<input, pipeVars>>

SpecStage3 == Stage3Init /\ [][RunBuildBatch]_<<pipeVars, funVars>>

(***************************************************************************)
(* The gateway call (llm.py LLMClient.generate_json).  One pass of its     *)
(* loop makes one gateway request; what the request brings is one of       *)
(*   json             the response text parses (line 46)                   *)
(*   fenced_json      it does not parse, a ``` block in it does (line 52)  *)
(*   fenced_malformed it does not parse, it has a ``` block and the block  *)
(*                    does not parse either (line 52 raises)               *)
(*   malformed        it does not parse and has no ``` block               *)
(*   rate_limit       an exception that names 429, resource or quota       *)
(*   error            any other exception                                  *)
(* The call's frame is [attempt, seen, wait, result, exc]: attempt is the  *)
(* loop variable, seen the outcomes of the requests made so far, wait the  *)
(* seconds of the last backoff sleep.  Clock time (_rate_limit, lines      *)
(* 81-87) only delays a request and is not part of the state.              *)
(***************************************************************************)
max_retries == 8

GatewayOutcomes == {"json", "fenced_json", "fenced_malformed", "malformed",
                    "rate_limit", "error"}
FailedOutcomes == GatewayOutcomes \ {"json", "fenced_json"}
\* the retry delay an error message may carry (line 64)
RetryDelays == {None, Some(1), Some(200)}

\* lines 54 and 73
Backoff(attempt) == 2 ^ attempt

\* lines 64-68
RateLimitWait(attempt, delay) ==
    IF delay # None THEN Min(delay[1] + 5, 120)
    ELSE Min((2 ^ (attempt + 2)) * 3, 120)

\* how one pass of the loop ends: by return, by raise, or by continue
Disposition(attempt, o) ==
    CASE o \in {"json", "fenced_json"} -> "return"
      [] o = "fenced_malformed" -> "raise"
      [] o = "rate_limit" -> "continue"
      [] OTHER -> IF attempt < max_retries - 1 THEN "continue" ELSE "raise"

\* the exception a pass raises
Raised(o) == IF o = "error" THEN "Exception" ELSE "JSONDecodeError"

\* a loop that does not count a rate-limited pass
RepeatAttemptOnRateLimit(attempt, o) ==
    IF o = "rate_limit" THEN attempt ELSE attempt + 1

\* line 37: for attempt in range(max_retries)
NextAttempt(attempt, o) == attempt + 1

Running == called = "generate_json" /\ output.result = "running"

GatewayInit ==
    /\ PipeIdle
    /\ input \in [prompt : {"extract", "test_cases", "examples"}]
    /\ output = <<>>
    /\ called = "none"

\* lines 23-35: the call is entered
EnterGenerateJson ==
    /\ called = "none"
    /\ called' = "generate_json"
    /\ output' = [attempt |-> 0, seen |-> <<>>, wait |-> 0,
                  result |-> "running", exc |-> "none"]
    /\ UNCHANGED <<input, pipeVars>>

\* lines 37-77: one pass of the loop with its request
Attempt ==
    /\ Running
    /\ output.attempt < max_retries
    /\ \E o \in GatewayOutcomes, delay \in RetryDelays :
          LET how == Disposition(output.attempt, o)
              seen == Append(output.seen, o)
          IN  /\ o # "rate_limit" => delay = None
              /\ output' =
                   CASE how = "return" ->
                          [output EXCEPT !.seen = seen, !.result = "returned"]
                     [] how = "raise" ->
                          [output EXCEPT !.seen = seen, !.result = "raised",
                                         !.exc = Raised(o)]
                     [] OTHER ->
                          [output EXCEPT
                             !.seen = seen,
                             !.attempt = NextAttempt(output.attempt, o),
                             !.wait = IF o = "rate_limit"
                                      THEN RateLimitWait(output.attempt, delay)
                                      ELSE Backoff(output.attempt)]
    /\ UNCHANGED <<input, called, pipeVars>>

\* line 79: the loop ran out
MaxRetriesExceeded ==
    /\ Running
    /\ output.attempt = max_retries
    /\ output' = [output EXCEPT !.result = "raised", !.exc = "RuntimeError"]
    /\ UNCHANGED <<input, called, pipeVars>>

GatewayNext == EnterGenerateJson \/ Attempt \/ MaxRetriesExceeded

SpecGateway == GatewayInit /\ [][GatewayNext]_<<pipeVars, funVars>>

\* every request comes back with one of the outcomes and every sleep ends,
\* so a call that can take a step takes one
SpecGatewayFair ==
    /\ GatewayInit
    /\ [][GatewayNext]_<<pipeVars, funVars>>
    /\ WF_<<pipeVars, funVars>>(GatewayNext)

vars == <<pipeVars, funVars>>

Init == PipeInit /\ FunIdle

Next ==
    \/ StartRun \/ SaveManifest \/ Stage1Load \/ ExtractUseCases
    \/ ExtractPolicies \/ SaveUseCases \/ SavePolicies \/ Stage2Load
    \/ GenerateTestCases \/ SaveTestCases \/ DatasetLoad \/ DatasetCall
    \/ SavePartial \/ SaveFailed \/ FinalSave \/ Kill \/ KillDuringSave

Spec == Init /\ [][Next]_vars

(***************************************************************************)
(* Properties of the pipeline.                                             *)
(***************************************************************************)
ArtifactFiles == {"uc", "pol", "tc", "ds"}

\* test cases with an example in dataset.json when the command started
StartCompleted == TestCaseIdsOf(startFs["ds"].recs)

\* test cases the command has made a stage-3 gateway call for
Stage3Calls == {c[2] : c \in {d \in calls : d[1] = 3}}

\* whenever dataset.json holds a complete document it is the document the
\* command started with, followed by examples of test cases that had none
DatasetOnlyExtended ==
    fs["ds"].st = "ok" =>
        /\ startFs["ds"].st # "torn"
        /\ IsPrefix(startFs["ds"].recs, fs["ds"].recs)
        /\ \A i \in Len(startFs["ds"].recs) + 1 .. Len(fs["ds"].recs) :
               fs["ds"].recs[i].test_case_id \notin StartCompleted

\* C1 as stated: a generate command makes no stage-3 gateway call for a test
\* case whose batch had been persisted before the command started, and the
\* examples persisted before are still in dataset.json, once each and in order.
C1_SkipsPersistedBatches ==
    /\ Stage3Calls \cap startPersisted = {}
    /\ DatasetOnlyExtended

\* C1 (amended): a generate command makes stage-3 gateway calls only for test
\* cases that had no example in dataset.json when it started, and whenever
\* dataset.json holds a complete document the examples it held at the start
\* are its prefix (once each, in their order) and every later example belongs
\* to a test case that had none.
C1_SkipsTestCasesWithExamples ==
    /\ Stage3Calls \cap StartCompleted = {}
    /\ DatasetOnlyExtended

\* a resumed command that found examples, called the gateway for another test
\* case and saved a longer dataset.json
C1_Witness ==
    /\ StartCompleted # {}
    /\ Stage3Calls # {}
    /\ fs["ds"].st = "ok"
    /\ Len(fs["ds"].recs) > Len(startFs["ds"].recs)

\* the command started with use_cases.json, policies.json and test_cases.json
\* present and non-empty
StartComplete == runs > 0 /\ Stage1Resumes(startFs) /\ Loaded(startFs["tc"])

\* C2: a generate command that starts with use_cases.json, policies.json and
\* test_cases.json present and non-empty makes no stage-1 or stage-2 gateway
\* call, does not write those three files (they stay as they were), and
\* whenever dataset.json holds a complete document it is the one of the start
\* extended by examples of test cases that had no persisted example.
C2_ResumeIdempotent ==
    StartComplete =>
        /\ \A c \in calls : c[1] = 3
        /\ written \cap {"uc", "pol", "tc"} = {}
        /\ \A f \in {"uc", "pol", "tc"} : fs[f] = startFs[f]
        /\ DatasetOnlyExtended

\* a command that started on complete stage-1 and stage-2 artifacts and a
\* partial dataset.json, and returned 0 after extending it
C2_Witness ==
    /\ StartComplete
    /\ pc = "idle" /\ lastExit = "ok"
    /\ startFs["ds"].st = "ok" /\ startFs["ds"].recs # <<>>
    /\ Len(fs["ds"].recs) > Len(startFs["ds"].recs)

\* C6 as stated, for the steps that leave a complete document behind: no step
\* of any generate command removes or replaces a record of use_cases.json,
\* policies.json, test_cases.json or dataset.json (each file only grows at its
\* end).
C6_AppendOnly ==
    [][\A f \in ArtifactFiles :
          (fs[f].st = "ok" /\ fs'[f].st = "ok") => IsPrefix(fs[f].recs, fs'[f].recs)]_vars

(***************************************************************************)
(* Properties of the validator, under SpecValidate.                        *)
(***************************************************************************)
Validated == called = "validate" /\ input.missing = {}
HasEntry(entries, e) == \E k \in DOMAIN entries : entries[k] = e
ErrorAt(kind, file, idx) == HasEntry(output.report.errors, Plain(kind, file, idx))
WarningAt(kind, file, idx) == HasEntry(output.report.warnings, Plain(kind, file, idx))
ValidIds(file, raw) ==
    {ListOf(raw)[j].id : j \in {k \in DOMAIN ListOf(raw) : RecordValid(file, ListOf(raw)[k])}}
IsDialog(ex) == DatasetExampleValid(ex) /\ ex.format = "dialog_last_turn_correction"
IsSingle(ex) == DatasetExampleValid(ex) /\ ex.format = "single_utterance_correction"

\* C5 as stated: whenever validate has run on a directory in which some use
\* case of use_cases.json has fewer than 3 test cases in test_cases.json
\* (0, 1 or 2), the report holds at least one error.
C5_FloorEnforced ==
    called = "validate" =>
        \A i \in DOMAIN ListOf(input.uc) :
            LET tcs == ListOf(input.tc)
                n == Cardinality({k \in DOMAIN tcs :
                        tcs[k].use_case_id = ListOf(input.uc)[i].id})
            IN  n < MinTestCasesPerUc => output.report.errors # <<>>

\* C7: for every schema-valid example of format dialog_last_turn_correction,
\* validate reports an error for that example when target_message_index is
\* missing, when it differs from len(messages) - 1, when there are fewer than
\* 2 messages, and when the last message's role is not operator; each of the
\* four errors is reported exactly when its condition holds.
C7_DialogShapeErrors ==
    Validated =>
        \A i \in DOMAIN ListOf(input.ds) :
            LET ex == ListOf(input.ds)[i]
                m == MessagesOf(ex)
                tmi == ex.input.tmi
            IN  IsDialog(ex) =>
                  /\ ErrorAt("dialog_tmi_missing", "ds", i - 1) <=> tmi = None
                  /\ ErrorAt("dialog_tmi_wrong", "ds", i - 1)
                        <=> (tmi # None /\ tmi[1] # Len(m) - 1)
                  /\ ErrorAt("dialog_count", "ds", i - 1) <=> Len(m) < 2
                  /\ ErrorAt("dialog_role", "ds", i - 1)
                        <=> (m # <<>> /\ m[Len(m)] # "operator")

\* four messages user, operator, user, operator with target_message_index 2
\* were validated and flagged
C7_Witness ==
    /\ Validated
    /\ \E i \in DOMAIN ListOf(input.ds) :
          /\ IsDialog(ListOf(input.ds)[i])
          /\ MessagesOf(ListOf(input.ds)[i]) = <<"user", "operator", "user", "operator">>
          /\ ListOf(input.ds)[i].input.tmi = Some(2)
          /\ ErrorAt("dialog_tmi_wrong", "ds", i - 1)
          /\ output.exit = 1

SingleKinds == {"single_count", "single_role", "single_tmi_missing", "single_tmi_wrong"}

\* C8 as stated: for every schema-valid example of format
\* single_utterance_correction, a deviation from the format's shape (message
\* count other than 1, first message's role not operator, target_message_index
\* missing or not 0) adds a warning for that example, and no deviation adds an
\* error.
C8_ShapeDeviationsOnlyWarn ==
    Validated =>
        \A i \in DOMAIN ListOf(input.ds) :
            LET ex == ListOf(input.ds)[i]
                m == MessagesOf(ex)
                tmi == ex.input.tmi
                deviates == \/ Len(m) # 1
                            \/ (m # <<>> /\ m[1] # "operator")
                            \/ tmi # Some(0)
            IN  IsSingle(ex) =>
                  /\ deviates => \E k \in SingleKinds : WarningAt(k, "ds", i - 1)
                  /\ \A k \in SingleKinds : ~ErrorAt(k, "ds", i - 1)

\* C8 (amended): for every schema-valid example of format
\* single_utterance_correction, a message count other than 1, a missing
\* target_message_index and a target_message_index other than 0 each add a
\* warning and no error, each exactly when it occurs; a first message whose
\* role is not operator adds an error and no warning.
C8_ShapeDeviations ==
    Validated =>
        \A i \in DOMAIN ListOf(input.ds) :
            LET ex == ListOf(input.ds)[i]
                m == MessagesOf(ex)
                tmi == ex.input.tmi
            IN  IsSingle(ex) =>
                  /\ WarningAt("single_count", "ds", i - 1) <=> Len(m) # 1
                  /\ WarningAt("single_tmi_missing", "ds", i - 1) <=> tmi = None
                  /\ WarningAt("single_tmi_wrong", "ds", i - 1)
                        <=> (tmi # None /\ tmi[1] # 0)
                  /\ ErrorAt("single_role", "ds", i - 1)
                        <=> (m # <<>> /\ m[1] # "operator")
                  /\ ~WarningAt("single_role", "ds", i - 1)
                  /\ \A k \in SingleKinds \ {"single_role"} : ~ErrorAt(k, "ds", i - 1)

\* two messages, the first of role user, with target_message_index 1: two
\* warnings and the role error
C8_Witness ==
    /\ Validated
    /\ \E i \in DOMAIN ListOf(input.ds) :
          /\ IsSingle(ListOf(input.ds)[i])
          /\ MessagesOf(ListOf(input.ds)[i]) = <<"user", "operator">>
          /\ ListOf(input.ds)[i].input.tmi = Some(1)
          /\ WarningAt("single_count", "ds", i - 1)
          /\ WarningAt("single_tmi_wrong", "ds", i - 1)
          /\ ErrorAt("single_role", "ds", i - 1)

IsCoverage(e) == e.kind = "coverage"
AllOfCase(ds, c) == ds # <<>> /\ \A i \in DOMAIN ds : ds[i].case = c
SourcesOf(ds) ==
    {SelectSeq(ds, DatasetExampleValid)[i].source :
        i \in DOMAIN SelectSeq(ds, DatasetExampleValid)} \ {"none"}
FormatsOf(ds) ==
    {SelectSeq(ds, DatasetExampleValid)[i].format :
        i \in DOMAIN SelectSeq(ds, DatasetExampleValid)}
CoverageError(missing) == Entry("coverage", "ds", 0, NoRef, missing)

\* C9: for a dataset all of whose records are support_bot, validate reports
\* exactly one coverage error, naming the missing sources, when the
\* metadata.source values of its schema-valid examples do not include all of
\* tickets, faq_paraphrase and corner, and none when they do; for a dataset
\* all of whose records are operator_quality it reports exactly one coverage
\* error, naming the missing formats, when its schema-valid examples do not
\* include both correction formats, and none when they do.  Coverage is never
\* reported as a warning.
C9_CaseCoverage ==
    Validated =>
        LET ds == ListOf(input.ds)
            cov == SelectSeq(output.report.errors, IsCoverage)
        IN  /\ AllOfCase(ds, "support_bot") =>
                 cov = IF RequiredSources \subseteq SourcesOf(ds) THEN <<>>
                       ELSE <<CoverageError(RequiredSources \ SourcesOf(ds))>>
            /\ AllOfCase(ds, "operator_quality") =>
                 cov = IF RequiredFormats \subseteq FormatsOf(ds) THEN <<>>
                       ELSE <<CoverageError(RequiredFormats \ FormatsOf(ds))>>
            /\ SelectSeq(output.report.warnings, IsCoverage) = <<>>

\* a support dataset with the sources tickets and faq_paraphrase only was
\* validated: one coverage error that names corner
C9_Witness ==
    /\ Validated
    /\ AllOfCase(ListOf(input.ds), "support_bot")
    /\ SourcesOf(ListOf(input.ds)) = {"tickets", "faq_paraphrase"}
    /\ SelectSeq(output.report.errors, IsCoverage) = <<CoverageError({"corner"})>>

RefKinds == {"ref_use_case", "ref_test_case", "ref_policy"}
RefError(kind, file, idx, ref) ==
    HasEntry(output.report.errors, Entry(kind, file, idx, ref, {}))

\* C10: for every schema-valid test case and every schema-valid example, a
\* foreign key (use_case_id, test_case_id, an element of policy_ids) that is
\* not the id of a schema-valid record of the referenced file is reported as
\* an error for that record and key, a key that is such an id is not, and no
\* unresolved reference is reported as a warning.
C10_ReferentialIntegrity ==
    Validated =>
        LET ucIds == ValidIds("uc", input.uc)
            polIds == ValidIds("pol", input.pol)
            tcIds == ValidIds("tc", input.tc)
            tcs == ListOf(input.tc)
            ds == ListOf(input.ds)
        IN  /\ \A i \in DOMAIN tcs : TestCaseValid(tcs[i]) =>
                  /\ RefError("ref_use_case", "tc", i - 1, tcs[i].use_case_id)
                        <=> tcs[i].use_case_id \notin ucIds
                  /\ \A k \in DOMAIN tcs[i].policy_ids :
                        RefError("ref_policy", "tc", i - 1, tcs[i].policy_ids[k])
                            <=> tcs[i].policy_ids[k] \notin polIds
            /\ \A i \in DOMAIN ds : DatasetExampleValid(ds[i]) =>
                  /\ RefError("ref_use_case", "ds", i - 1, ds[i].use_case_id)
                        <=> ds[i].use_case_id \notin ucIds
                  /\ RefError("ref_test_case", "ds", i - 1, ds[i].test_case_id)
                        <=> ds[i].test_case_id \notin tcIds
                  /\ \A k \in DOMAIN ds[i].policy_ids :
                        RefError("ref_policy", "ds", i - 1, ds[i].policy_ids[k])
                            <=> ds[i].policy_ids[k] \notin polIds
            /\ \A k \in DOMAIN output.report.warnings :
                  output.report.warnings[k].kind \notin RefKinds

\* a valid test case names a use case whose record fails its schema, and a
\* valid example names one policy that resolves and one that does not
C10_Witness ==
    /\ Validated
    /\ \E i \in DOMAIN ListOf(input.tc) :
          /\ TestCaseValid(ListOf(input.tc)[i])
          /\ ListOf(input.tc)[i].use_case_id \in IdSetOfAll("uc", ListOf(input.uc))
          /\ RefError("ref_use_case", "tc", i - 1, ListOf(input.tc)[i].use_case_id)
    /\ \E i \in DOMAIN ListOf(input.ds) :
          /\ DatasetExampleValid(ListOf(input.ds)[i])
          /\ ListOf(input.ds)[i].policy_ids = <<Id("pol", 1), Id("pol", 3)>>
          /\ RefError("ref_policy", "ds", i - 1, Id("pol", 3))
          /\ ~RefError("ref_policy", "ds", i - 1, Id("pol", 1))

(***************************************************************************)
(* Properties of stage 2 and of stage 1 applied on their own.              *)
(***************************************************************************)
\* C3 as stated: every test case generate_test_cases returns has a non-empty
\* policy_ids list, every element of which is the id of a policy of the list
\* passed to the stage.
C3_PolicyIdsResolve ==
    called = "generate_test_cases" =>
        \A i \in DOMAIN output :
            /\ output[i].policy_ids # <<>>
            /\ Range(output[i].policy_ids) \subseteq Range(PolicyIdsOf(input.policies))

\* C4 as stated: every evidence entry of a use case or policy returned by
\* extraction has 1 <= line_start <= line_end <= total_lines, total_lines
\* being the number of lines of the input document.
C4_EvidenceInRange ==
    called \in {"extract_use_cases", "extract_policies"} =>
        \A i \in DOMAIN output : \A k \in DOMAIN output[i].evidence :
            LET e == output[i].evidence[k]
            IN  1 <= e.line_start /\ e.line_start <= e.line_end
                /\ e.line_end <= Len(input.raw_lines)

(***************************************************************************)
(* Further properties of the validator, under SpecValidate.                *)
(***************************************************************************)
RecordFiles == {"uc", "pol", "tc"}
RecordsOf(file) ==
    ListOf(CASE file = "uc" -> input.uc [] file = "pol" -> input.pol
             [] OTHER -> input.tc)
\* the rules of the data model for one record: its schema and, for a test
\* case, at least one policy id
BreaksDataModel(file, r) ==
    ~RecordValid(file, r) \/ (file = "tc" /\ r.policy_ids = <<>>)
ErrorsAbout(file, idx) ==
    {k \in DOMAIN output.report.errors :
        /\ output.report.errors[k].file = file
        /\ output.report.errors[k].idx = idx
        /\ output.report.errors[k].kind \in
              {"schema", "ref_use_case", "ref_policy", "no_policy_id"}}

\* C11 as stated: a record of use_cases.json, policies.json or
\* test_cases.json that breaks a rule of the data model (schema, or an empty
\* policy_ids list) has exactly one error in the report, and its id is not in
\* the id set the later checks use.
C11_InvalidRecordExcluded ==
    Validated =>
        \A file \in RecordFiles : \A i \in DOMAIN RecordsOf(file) :
            BreaksDataModel(file, RecordsOf(file)[i]) =>
                /\ Cardinality(ErrorsAbout(file, i - 1)) = 1
                /\ RecordsOf(file)[i].id \notin IdSet(file, RecordsOf(file))

\* C12: the exit status of validate is 0 exactly when the report holds no
\* error, whatever the number of warnings, and 1 otherwise.
C12_ExitStatus ==
    called = "validate" =>
        /\ output.exit \in {0, 1}
        /\ output.exit = 0 <=> output.report.errors = <<>>

\* a directory was validated with warnings and without errors: exit 0
C12_Witness ==
    /\ called = "validate"
    /\ output.report.warnings # <<>>
    /\ output.report.errors = <<>>
    /\ output.exit = 0

ArtifactNames == {"uc", "pol", "tc", "ds"}
MissingFileEntries ==
    {k \in DOMAIN output.report.errors : output.report.errors[k].kind = "missing_file"}
OneErrorPerMissing(files) ==
    /\ \A f \in files : ErrorAt("missing_file", f, 0)
    /\ Cardinality(MissingFileEntries) = Cardinality(files)
    /\ Len(output.report.errors) = Cardinality(files)
    /\ output.report.warnings = <<>>
\* the wrapper and count checks have been made
Proceeded ==
    /\ MissingFileEntries = {}
    /\ \A f \in ArtifactNames : ErrorAt("wrapper", f, 0) <=> input[f].shape = "other"
    /\ ErrorAt("min_use_cases", "uc", 0) <=> Len(ListOf(input.uc)) < MinUseCases
    /\ ErrorAt("manifest", "manifest", 0) <=> input.manifest = "invalid"

\* C16 as stated: when one of use_cases.json, policies.json, test_cases.json
\* and dataset.json is missing the report holds exactly one error per missing
\* file and nothing else; when the four are present validate goes on to the
\* wrapper, schema, count and referential checks.
C16_FourFilesRequired ==
    called = "validate" =>
        IF input.missing \cap ArtifactNames # {}
        THEN OneErrorPerMissing(input.missing \cap ArtifactNames)
        ELSE Proceeded

\* C16 (amended): validate requires run_manifest.json, use_cases.json,
\* policies.json, test_cases.json and dataset.json; when one of the five is
\* missing the report holds exactly one error per missing file and nothing
\* else; when the five are present validate goes on to the wrapper, schema,
\* count and referential checks.
C16_FiveFilesRequired ==
    called = "validate" =>
        IF input.missing # {}
        THEN OneErrorPerMissing(input.missing)
        ELSE Proceeded

\* only run_manifest.json is missing from a directory whose use_cases.json
\* is not a wrapper: one error, for the manifest
C16_Witness ==
    /\ called = "validate"
    /\ input.missing = {"manifest"}
    /\ input.uc.shape = "other"
    /\ output.report.errors = <<Plain("missing_file", "manifest", 0)>>
    /\ output.exit = 1

(***************************************************************************)
(* Further properties of the pipeline, under Spec.                         *)
(***************************************************************************)
\* the examples generate_dataset holds when a call fails: the last document
\* this command saved or, before its first save, the one it loaded
AccumulatedSoFar ==
    IF "ds" \in written THEN fs["ds"].recs ELSE startFs["ds"].recs

\* C13: once a stage-3 gateway call has failed terminally, the next step of
\* the command writes dataset.json with exactly the examples accumulated so
\* far and ends the command with the failure: no further gateway call is
\* made and the command does not return success (unless the process is
\* terminated first, which does not return success either).
C13_FailureSavesThenPropagates ==
    [][pc = "save_failed" =>
          /\ pc' = "idle"
          /\ lastExit' \in {"failed", "killed"}
          /\ calls' = calls
          /\ lastExit' = "failed" =>
                /\ all_examples = AccumulatedSoFar
                /\ fs'["ds"] = Ok(AccumulatedSoFar)]_vars

\* a gateway call has failed after a batch of this command was completed and
\* saved
C13_Witness ==
    /\ pc = "save_failed"
    /\ "ds" \in written
    /\ Len(all_examples) > Len(startFs["ds"].recs)
    /\ Cardinality(Stage3Calls) >= 2

\* C14 as stated: after a command was terminated, at any point, dataset.json
\* is absent or holds a complete document, and it is absent only if no batch
\* had been persisted.
C14_CrashLeavesLoadableDataset ==
    lastExit = "killed" =>
        /\ fs["ds"].st # "torn"
        /\ fs["ds"].st = "absent" => persisted = {}

\* C17: whenever dataset.json holds a document, the k-th example of the file
\* has id ex_k, so the ids are pairwise distinct, after any sequence of
\* complete and interrupted commands.
C17_SequentialExampleIds ==
    fs["ds"].st = "ok" =>
        \A k \in DOMAIN fs["ds"].recs : fs["ds"].recs[k].id = Id("ex", k)

\* a resumed command has added examples behind the ones it found
C17_Witness ==
    /\ runs >= 2
    /\ startFs["ds"].st = "ok" /\ startFs["ds"].recs # <<>>
    /\ fs["ds"].st = "ok"
    /\ Len(fs["ds"].recs) > Len(startFs["ds"].recs)
    /\ fs["ds"].recs[Len(fs["ds"].recs)].id = Id("ex", Len(fs["ds"].recs))

\* the position (1-based) of test case id in test_cases.json
PositionOf(id) == CHOOSE k \in DOMAIN fs["tc"].recs : fs["tc"].recs[k].id = id

\* C19: every example of dataset.json has the format given by its test
\* case's case type and 0-based position in test_cases.json: single_turn_qa
\* for support_bot, single_utterance_correction at an even and
\* dialog_last_turn_correction at an odd position for operator_quality,
\* whether earlier test cases were skipped by a resume or not.
C19_FormatByPosition ==
    (fs["ds"].st = "ok" /\ fs["tc"].st = "ok") =>
        \A k \in DOMAIN fs["ds"].recs :
            LET ex == fs["ds"].recs[k]
            IN  /\ ex.test_case_id \in {fs["tc"].recs[j].id : j \in DOMAIN fs["tc"].recs}
                /\ ex.format =
                     IF ex.case = "support_bot" THEN "single_turn_qa"
                     ELSE IF (PositionOf(ex.test_case_id) - 1) % 2 = 0
                          THEN "single_utterance_correction"
                     ELSE "dialog_last_turn_correction"

\* a resumed operator_quality command skipped the first test case and gave
\* the second one the dialog format
C19_Witness ==
    /\ doc.case = "operator_quality"
    /\ runs >= 2
    /\ fs["tc"].st = "ok" /\ fs["ds"].st = "ok"
    /\ Id("tc", 1) \in StartCompleted
    /\ Id("tc", 2) \notin StartCompleted
    /\ \E k \in DOMAIN fs["ds"].recs :
          /\ fs["ds"].recs[k].test_case_id = Id("tc", 2)
          /\ fs["ds"].recs[k].format = "dialog_last_turn_correction"

(***************************************************************************)
(* Further properties of the stages applied on their own.                  *)
(***************************************************************************)
\* the gateway test cases generate_test_cases keeps, in the order it stores
\* them
KeptRawTestCases ==
    Flatten([u \in DOMAIN input.use_cases |->
                Take(input.answers[u], N_TEST_CASES_PER_UC)])

\* C15: the stored policy_ids of a test case is the gateway's list without
\* the ids that no known policy has, in the gateway's order; when nothing is
\* left it is the first two known policy ids in policy order (all of them
\* when fewer than two are known).
C15_PolicyIdRepair ==
    called = "generate_test_cases" =>
        /\ Len(output) = Len(KeptRawTestCases)
        /\ \A i \in DOMAIN output :
              LET raw == KeptRawTestCases[i].policy_ids
                  given == IF raw = None THEN <<>> ELSE raw[1]
                  known == [k \in DOMAIN input.policies |-> input.policies[k].id]
                  IsKnown(p) == \E k \in DOMAIN known : known[k] = p
                  left == SelectSeq(given, IsKnown)
              IN  output[i].policy_ids =
                     IF left # <<>> THEN left
                     ELSE SubSeq(known, 1, IF Len(known) < 2 THEN Len(known) ELSE 2)

\* policy_ids [] against the known policies pol_1, pol_2, pol_3 was stored as
\* pol_1, pol_2, and a list with an unknown id was stored without it
C15_Witness ==
    /\ called = "generate_test_cases"
    /\ Len(input.policies) = 3
    /\ Len(input.use_cases) = 2
    /\ input.answers[1] = <<[policy_ids |-> Some(<<>>)]>>
    /\ input.answers[2] = <<[policy_ids |-> Some(<<Id("pol", 2), Id("pol", 4)>>)]>>
    /\ output[1].policy_ids = <<Id("pol", 1), Id("pol", 2)>>
    /\ output[2].policy_ids = <<Id("pol", 2)>>

\* C18 as stated: every example stage 3 builds has target_message_index 0
\* when its format is single_utterance_correction, len(messages) - 1 when it
\* is dialog_last_turn_correction, and no target_message_index when it is
\* single_turn_qa, whatever the gateway's input object held.
C18_TargetMessageIndex ==
    called = "generate_dataset" =>
        \A i \in DOMAIN output :
            output[i].input.tmi =
                IF output[i].format = "single_utterance_correction" THEN Some(0)
                ELSE IF output[i].format = "dialog_last_turn_correction"
                     THEN Some(Len(output[i].input.messages) - 1)
                ELSE None

\* C20 as stated: a use case or policy for which the gateway supplied no
\* evidence (no evidence key, or an empty list) is stored with exactly one
\* evidence entry, line_start 1, line_end 1 and the quote "N/A".
C20_PlaceholderEvidence ==
    called \in {"extract_use_cases", "extract_policies"} =>
        \A i \in DOMAIN output :
            input.answer[i].evidence \in {None, Some(<<>>)} =>
                output[i].evidence =
                    <<[line_start |-> 1, line_end |-> 1, quote |-> "N/A"]>>

(***************************************************************************)
(* Properties of the gateway call.                                         *)
(***************************************************************************)
Finished == called = "generate_json" /\ output.result \in {"returned", "raised"}
RaisedToCaller == called = "generate_json" /\ output.result = "raised"
OnlyFailures(seen) == \A i \in DOMAIN seen : seen[i] \in FailedOutcomes

\* C21: whenever generate_json raises to its caller it has made max_retries
\* gateway requests, so no failure of an earlier attempt reaches the caller.
C21_RaisesOnlyAtCeiling ==
    RaisedToCaller => Len(output.seen) = max_retries

\* C22: every generate_json call terminates: it never makes more than
\* max_retries gateway requests, it eventually has returned or raised, it
\* returns only on a request that brought parsable data, and when every
\* request failed (also with rate-limit errors only) it has raised.
C22_Terminates ==
    /\ [](called = "generate_json" => Len(output.seen) <= max_retries)
    /\ [](Finished =>
            /\ output.seen # <<>>
            /\ output.result = "returned"
                 <=> output.seen[Len(output.seen)] \notin FailedOutcomes
            /\ OnlyFailures(output.seen) => output.result = "raised")
    /\ <>Finished

\* the gateway answered every request with a rate-limit error and the call
\* has raised
C22_Witness ==
    /\ RaisedToCaller
    /\ output.seen = [i \in 1 .. max_retries |-> "rate_limit"]
    /\ output.exc = "RuntimeError"

(***************************************************************************)
(* Properties of the metadata labels of stage 3.                           *)
(***************************************************************************)
BatchBuilt == called = "generate_dataset"
SupportBatch == BatchBuilt /\ input.tc.case = "support_bot"
HasCorner(batch) == \E i \in DOMAIN batch : batch[i].source = "corner"

\* C23: in the batch of a support_bot TestCase the example at 0-based index i
\* has metadata.source tickets, faq_paraphrase or corner for i mod 3 = 0, 1, 2,
\* whatever source the gateway sent; every example of either case type has
\* metadata.split = test; so corner occurs among a support_bot TestCase's
\* examples only if its batch has at least 3 of them, and never when
\* n_examples_per_tc <= 2.
C23_SourceRotation ==
    BatchBuilt =>
       /\ \A i \in DOMAIN output : output[i].split = "test"
       /\ input.tc.case = "support_bot" =>
             /\ \A i \in DOMAIN output :
                   output[i].source =
                      CASE (i - 1) % 3 = 0 -> "tickets"
                        [] (i - 1) % 3 = 1 -> "faq_paraphrase"
                        [] OTHER -> "corner"
             /\ HasCorner(output) => Len(output) >= 3
             /\ input.n_examples_per_tc <= 2 => ~HasCorner(output)

\* a support_bot batch of four examples: the labels have gone round once
C23_Witness ==
    /\ SupportBatch
    /\ Len(output) = 4
    /\ output[3].source = "corner"
    /\ output[4].source = "tickets"

(***************************************************************************)
(* Properties of the test_cases.json artifact.                             *)
(***************************************************************************)
\* the running command has made the stage-2 gateway call of every use case
\* and is about to save the list
Stage2PassComplete ==
    /\ pc = "save_tc"
    /\ \A i \in DOMAIN use_cases : <<2, use_cases[i].id>> \in calls

\* test_cases.json changes only in a step that follows a complete pass
OnlyCompletePassWrites ==
    [][fs'["tc"] # fs["tc"] => Stage2PassComplete]_vars

\* a step that leaves a document in test_cases.json leaves the whole result
WritesWholeResult ==
    [][fs'["tc"] # fs["tc"] /\ fs'["tc"].st = "ok" => fs'["tc"] = Ok(test_cases)]_vars

\* C24: test_cases.json is always either absent or the result of a stage-2
\* pass that completed the gateway call for every UseCase; a pass interrupted
\* by a crash or a terminal gateway failure writes nothing.
C24_Stage2AllOrNothing ==
    /\ [](fs["tc"].st \in {"absent", "ok"})
    /\ OnlyCompletePassWrites
    /\ WritesWholeResult

=============================================================================
